---- MODULE Spec2Model ----
(***************************************************************************)
(* A model of the posts REST API: the validation utilities                 *)
(* (utils/validation.js) as operators over JavaScript values, and the five *)
(* handlers of routes/posts.js as actions over the posts table kept by the *)
(* external database.                                                      *)
(*                                                                         *)
(* JavaScript values are records tagged by type; a string is the sequence  *)
(* of its UTF-16 code units, each a one-character TLA+ string.             *)
(***************************************************************************)
EXTENDS Integers, Sequences, FiniteSets, TLC

VARIABLES table, nextId, resp, created, call, run

vars == <<table, nextId, resp, created, call, run>>

-----------------------------------------------------------------------------
(* Bounds of the model.                                                    *)

\* longest id / page / limit string drawn exhaustively from Alphabet
MaxStrLen == 2
\* ids the database sequence hands out in Spec
MaxId == 2
\* ids the database sequence hands out in SpecList
MaxListId == 5

-----------------------------------------------------------------------------
(* JavaScript values.                                                      *)

Undefined == [t |-> "undefined"]
Null == [t |-> "null"]
NaN == [t |-> "NaN"]
Num(n) == [t |-> "number", n |-> n]
Str(s) == [t |-> "string", s |-> s]
Bool(b) == [t |-> "boolean", b |-> b]
\* an object that is no function and has no method trim, as the query parser
\* makes of ?search[k]=v
Obj == [t |-> "object"]

\* typeof v
TypeOf(v) ==
  CASE v.t = "NaN" -> "number"
    [] v.t = "null" -> "object"
    [] OTHER -> v.t

\* ToBoolean(v): the falsy values are undefined, null, NaN, 0, "" and false
Truthy(v) ==
  CASE v.t = "undefined" -> FALSE
    [] v.t = "null" -> FALSE
    [] v.t = "NaN" -> FALSE
    [] v.t = "number" -> v.n # 0
    [] v.t = "string" -> Len(v.s) > 0
    [] v.t = "boolean" -> v.b
    [] v.t = "object" -> TRUE

isNaN(v) == v.t = "NaN"

WhiteSpace == {" "}

DecDigits == <<"0", "1", "2", "3", "4", "5", "6", "7", "8", "9">>

\* the value of digit c in the given radix, or -1 when c is no such digit
DigitVal(c, radix) ==
  CASE c = "0" -> 0 [] c = "1" -> 1 [] c = "2" -> 2 [] c = "3" -> 3
    [] c = "4" -> 4 [] c = "5" -> 5 [] c = "6" -> 6 [] c = "7" -> 7
    [] c = "8" -> 8 [] c = "9" -> 9
    [] radix = 16 /\ c \in {"a", "A"} -> 10
    [] radix = 16 /\ c \in {"b", "B"} -> 11
    [] radix = 16 /\ c \in {"c", "C"} -> 12
    [] radix = 16 /\ c \in {"d", "D"} -> 13
    [] radix = 16 /\ c \in {"e", "E"} -> 14
    [] radix = 16 /\ c \in {"f", "F"} -> 15
    [] OTHER -> -1

RECURSIVE TrimStart(_)
TrimStart(s) ==
  IF s # <<>> /\ Head(s) \in WhiteSpace THEN TrimStart(Tail(s)) ELSE s

RECURSIVE TrimEnd(_)
TrimEnd(s) ==
  IF s # <<>> /\ s[Len(s)] \in WhiteSpace
  THEN TrimEnd(SubSeq(s, 1, Len(s) - 1)) ELSE s

\* String.prototype.trim
Trim(s) == TrimEnd(TrimStart(s))

\* the number the longest prefix of digits of s denotes, continuing from acc
RECURSIVE DigitsValue(_, _, _)
DigitsValue(s, radix, acc) ==
  IF s = <<>> \/ DigitVal(Head(s), radix) < 0 THEN acc
  ELSE DigitsValue(Tail(s), radix, acc * radix + DigitVal(Head(s), radix))

\* parseInt(string) with no radix: leading white space is skipped, then an
\* optional sign, an optional 0x/0X prefix (radix 16), then the longest
\* prefix of digits; NaN when there is no digit
ParseIntString(s) ==
  LET r == TrimStart(s)
      signed == r # <<>> /\ Head(r) \in {"-", "+"}
      sign == IF r # <<>> /\ Head(r) = "-" THEN -1 ELSE 1
      u == IF signed THEN Tail(r) ELSE r
      hex == Len(u) >= 2 /\ u[1] = "0" /\ u[2] \in {"x", "X"}
      radix == IF hex THEN 16 ELSE 10
      d == IF hex THEN SubSeq(u, 3, Len(u)) ELSE u
  IN IF d = <<>> \/ DigitVal(Head(d), radix) < 0 THEN NaN
     ELSE Num(sign * DigitsValue(d, radix, 0))

\* parseInt(v): v is converted to a string first; an integer number prints
\* as its decimal digits and parses back to itself, and "undefined", "null",
\* "NaN", "true" and "false" hold no leading digit
parseInt(v) ==
  CASE v.t = "string" -> ParseIntString(v.s)
    [] v.t = "number" -> v
    [] OTHER -> NaN

Max(a, b) == IF a >= b THEN a ELSE b
Min(a, b) == IF a <= b THEN a ELSE b

\* a || d for a number (or NaN) a and a number d
OrElse(a, d) == IF Truthy(a) THEN a.n ELSE d

-----------------------------------------------------------------------------
(* utils/validation.js                                                     *)

MaxTitleLength == 255
MaxBodyLength == 10000
DefaultLimit == 10
MaxLimit == 100

\* id && !isNaN(parseInt(id)) && parseInt(id) > 0: a falsy id is returned
\* as it is
validateId(id) ==
  IF ~Truthy(id) THEN id
  ELSE IF isNaN(parseInt(id)) THEN Bool(FALSE)
  ELSE Bool(parseInt(id).n > 0)

\* validatePagination without Math.min(100, ...)
validatePaginationUncapped(page, limit) ==
  [pageNum |-> Max(1, OrElse(parseInt(page), 1)),
   limitNum |-> Max(1, OrElse(parseInt(limit), DefaultLimit))]

validatePagination(page, limit) ==
  [pageNum |-> Max(1, OrElse(parseInt(page), 1)),
   limitNum |-> Min(MaxLimit, Max(1, OrElse(parseInt(limit), DefaultLimit)))]

TitleRequired == "Title is required and must be a non-empty string"
TitleTooLong == "Title must be 255 characters or less"
BodyRequired == "Body is required and must be a non-empty string"
BodyTooLong == "Body must be 10000 characters or less"

\* !v || typeof v !== 'string' || !v.trim()
Blank(v) == ~Truthy(v) \/ TypeOf(v) # "string" \/ Len(Trim(v.s)) = 0

\* titleErrors without the check of the length
titleErrorsRequiredOnly(title) ==
  IF Blank(title) THEN <<TitleRequired>> ELSE <<>>

titleErrors(title) ==
  IF Blank(title) THEN <<TitleRequired>>
  ELSE IF Len(title.s) > MaxTitleLength THEN <<TitleTooLong>>
  ELSE <<>>

\* bodyErrors with the length taken after trimming
bodyErrorsTrimmedLength(body) ==
  IF Blank(body) THEN <<BodyRequired>>
  ELSE IF Len(Trim(body.s)) > MaxBodyLength THEN <<BodyTooLong>>
  ELSE <<>>

bodyErrors(body) ==
  IF Blank(body) THEN <<BodyRequired>>
  ELSE IF Len(body.s) > MaxBodyLength THEN <<BodyTooLong>>
  ELSE <<>>

validatePostData(title, body) ==
  LET errors == titleErrors(title) \o bodyErrors(body)
  IN [isValid |-> Len(errors) = 0, errors |-> errors]

\* sanitizeString without trim()
sanitizeStringUntrimmed(str) ==
  IF TypeOf(str) = "string" THEN str.s ELSE <<>>

sanitizeString(str) ==
  IF TypeOf(str) = "string" THEN Trim(str.s) ELSE <<>>

-----------------------------------------------------------------------------
(* Inputs.                                                                 *)

Alphabet == {" ", "-", "0", "1", "a"}

StringsUpTo(S, n) == UNION {[1..k -> S] : k \in 0..n}

RECURSIVE Rep(_, _)
\* the string of n characters c
Rep(c, n) ==
  IF n = 0 THEN <<>>
  ELSE IF n % 2 = 1 THEN <<c>> \o Rep(c, n - 1)
  ELSE LET half == Rep(c, n \div 2) IN half \o half

\* the strings of the documented examples, and a hexadecimal one
ExampleStrings ==
  {<<"1", "2", "3">>, <<"2", "0", "0">>, <<"5", "0">>, <<"2">>,
   <<"a", "b", "c">>, <<"x", "y", "z">>, <<"0", "x", "1", "f">>}

ParamStrings == StringsUpTo(Alphabet, MaxStrLen) \cup ExampleStrings

\* what a caller can pass for an id, a page or a limit
ParamValues ==
  {Undefined, Null, Num(0), Num(1), Num(10)} \cup {Str(s) : s \in ParamStrings}

\* titles around the limit of 255 and bodies around the limit of 10000
FieldStrings(c, max) ==
  {<<>>, <<" ">>, <<c>>, <<" ", c, " ">>,
   Rep(c, max), Rep(c, max + 1),
   <<" ">> \o Rep(c, max - 1),
   Rep(c, max - 1) \o <<" ", " ">>,
   <<" ", " ">> \o Rep(c, max)}

FieldValues(c, max) ==
  {Undefined, Null, Num(0), Num(7), Bool(TRUE)}
    \cup {Str(s) : s \in FieldStrings(c, max) \cup {Rep(c, 2 * max)}}

TitleValues == FieldValues("a", MaxTitleLength)
BodyValues == FieldValues("x", MaxBodyLength)

-----------------------------------------------------------------------------
(* SpecUtil: the validation utilities called on their own.  The initial    *)
(* state holds one call with its arguments; the action of the function     *)
(* called returns.                                                         *)

Pending == [t |-> "pending"]

Call(fn, args) == [fn |-> fn, args |-> args, ret |-> Pending]

UtilCalls ==
  {Call("validateId", <<id>>) : id \in ParamValues}
    \cup {Call("validatePagination", <<page, limit>>) :
            page \in ParamValues, limit \in ParamValues}
    \cup {Call("validatePostData", <<title, body>>) :
            title \in TitleValues, body \in BodyValues}
    \cup {Call("sanitizeString", <<str>>) : str \in TitleValues \cup BodyValues}

Idle == [fn |-> "none", args |-> <<>>, ret |-> Pending]

Return(fn, value) ==
  /\ call.fn = fn
  /\ call.ret = Pending
  /\ call' = [call EXCEPT !.ret = value]
  /\ UNCHANGED <<table, nextId, resp, created, run>>

CallValidateId == Return("validateId", validateId(call.args[1]))

CallValidatePagination ==
  Return("validatePagination", validatePagination(call.args[1], call.args[2]))

CallValidatePostData ==
  Return("validatePostData", validatePostData(call.args[1], call.args[2]))

CallSanitizeString ==
  Return("sanitizeString", Str(sanitizeString(call.args[1])))

NoResponse == [op |-> "none"]

\* the course of the last request: the database calls it issued, the error
\* the call returned and the exception its try block raised (Null: none)
Ran(calls, error, exception) ==
  [calls |-> calls, error |-> error, exception |-> exception]

NotRun == Ran(0, Null, Null)

Init ==
  /\ table = <<>>
  /\ nextId = 1
  /\ resp = NoResponse
  /\ created = <<>>
  /\ call = Idle
  /\ run = NotRun

InitUtil ==
  /\ table = <<>>
  /\ nextId = 1
  /\ resp = NoResponse
  /\ created = <<>>
  /\ call \in UtilCalls
  /\ run = NotRun

NextUtil ==
  \/ CallValidateId
  \/ CallValidatePagination
  \/ CallValidatePostData
  \/ CallSanitizeString

SpecUtil == InitUtil /\ [][NextUtil]_vars

-----------------------------------------------------------------------------
(* The posts table behind the database client.  table maps the id of each  *)
(* persisted post to its row; nextId is the id the next insert is given.   *)
(* A call either fails as a whole, leaving the table as it was, or runs.   *)

DbOutcomes == {"ok", "error"}

NoRows == [code |-> "PGRST116", message |-> "no rows returned"]
DbFailure == [code |-> "XX000", message |-> "database failure"]
BadIdSyntax == [code |-> "22P02", message |-> "invalid input syntax"]

\* the value the integer column id is compared with in .eq('id', id): the
\* number a decimal numeral denotes, and nothing for any other text
IsNumeral(s) ==
  LET d == IF s # <<>> /\ Head(s) = "-" THEN Tail(s) ELSE s
  IN d # <<>> /\ \A i \in 1..Len(d) : DigitVal(d[i], 10) >= 0

\* .from('posts').select(...).eq('id', id).single()
selectSingle(id, db) ==
  IF db = "error" THEN [data |-> Null, error |-> DbFailure]
  ELSE IF ~IsNumeral(id) THEN [data |-> Null, error |-> BadIdSyntax]
  ELSE IF ParseIntString(id).n \notin DOMAIN table
    THEN [data |-> Null, error |-> NoRows]
  ELSE [data |-> table[ParseIntString(id).n], error |-> Null]

Row(id, title, body, user_id) ==
  [id |-> id, title |-> title, body |-> body, user_id |-> user_id]

\* the table with one more row
Inserted(row) ==
  [i \in DOMAIN table \cup {row.id} |-> IF i = row.id THEN row ELSE table[i]]

\* the table without the row of id i
Removed(i) == [j \in DOMAIN table \ {i} |-> table[j]]

\* Updated without .eq('id', id): every row is set
UpdatedEveryRow(i, title, body) ==
  [j \in DOMAIN table |-> [table[j] EXCEPT !.title = title, !.body = body]]

\* the table with title and body of the row of id i set
Updated(i, title, body) ==
  [table EXCEPT ![i] = [@ EXCEPT !.title = title, !.body = body]]

-----------------------------------------------------------------------------
(* The responses of routes/posts.js.  resp is the last exchange: the       *)
(* operation, the HTTP status and the JSON body sent.                      *)

Response(op, status, success, data, error) ==
  [op |-> op, status |-> status,
   body |-> [success |-> success, data |-> data, error |-> error]]

\* the JSON string m, as the error of a body (null on success)
JsonString(m) == [t |-> "string", text |-> m]

Failure(op, status, message) ==
  Response(op, status, FALSE, Null, JsonString(message))

RECURSIVE Join(_, _)
\* errors.join(sep)
Join(errors, sep) ==
  IF errors = <<>> THEN ""
  ELSE IF Len(errors) = 1 THEN errors[1]
  ELSE errors[1] \o sep \o Join(Tail(errors), sep)

\* the exceptions a request can raise: the awaited database call rejects,
\* or search.trim() is called on a search that is no string
FetchFailed == [name |-> "TypeError", message |-> "fetch failed"]
TrimNotAFunction ==
  [name |-> "TypeError", message |-> "search.trim is not a function"]

\* a catch block that sends the message of the error it caught
CaughtResponseLeaking(op, err) == Failure(op, 500, err.message)

\* catch (err): the error is logged, and the response is a fixed one
CaughtResponse(op, err) == Failure(op, 500, "Internal server error")

\* the ids a request for the post of id i no longer counts as fresh
Forget(id) ==
  LET n == ParseIntString(id)
  IN [i \in DOMAIN created \ (IF isNaN(n) THEN {} ELSE {n.n}) |-> created[i]]

-----------------------------------------------------------------------------
(* GET /posts/:id                                                          *)

\* Get without the case of PGRST116: no row is answered as any other error
GetWithoutNotFound(id, db) ==
  /\ IF ~Truthy(validateId(Str(id)))
       THEN /\ resp' = Failure("get", 400, "Invalid post ID")
            /\ run' = Ran(0, Null, Null)
     ELSE IF db = "throw"
       THEN /\ resp' = CaughtResponse("get", FetchFailed)
            /\ run' = Ran(1, Null, FetchFailed)
     ELSE LET r == selectSingle(id, db)
          IN /\ IF r.error # Null
                  THEN resp' = Failure("get", 400, r.error.message)
                ELSE resp' = Response("get", 200, TRUE, r.data, Null)
             /\ run' = Ran(1, r.error, Null)
  /\ UNCHANGED <<table, nextId, created, call>>

Get(id, db) ==
  /\ IF ~Truthy(validateId(Str(id)))
       THEN /\ resp' = Failure("get", 400, "Invalid post ID")
            /\ run' = Ran(0, Null, Null)
     ELSE IF db = "throw"
       THEN /\ resp' = CaughtResponse("get", FetchFailed)
            /\ run' = Ran(1, Null, FetchFailed)
     ELSE LET r == selectSingle(id, db)
          IN /\ IF r.error # Null
                  THEN IF r.error.code = "PGRST116"
                         THEN resp' = Failure("get", 404, "Post not found")
                       ELSE resp' = Failure("get", 400, r.error.message)
                ELSE resp' = Response("get", 200, TRUE, r.data, Null)
             /\ run' = Ran(1, r.error, Null)
  /\ UNCHANGED <<table, nextId, created, call>>

-----------------------------------------------------------------------------
(* POST /posts.  cap bounds the ids the sequence hands out: an insert      *)
(* beyond it is not taken.                                                 *)

\* Create with title and body checked before user_id
CreateFieldsFirst(title, body, user_id, db, cap) ==
  LET validation == validatePostData(title, body)
      row == Row(nextId, sanitizeString(title), sanitizeString(body), user_id)
      answered(response, calls, error, exception) ==
        /\ resp' = response
        /\ run' = Ran(calls, error, exception)
        /\ UNCHANGED <<table, nextId, created>>
      rejected(message) == answered(Failure("create", 400, message), 0, Null, Null)
  IN /\ IF ~validation.isValid
          THEN rejected(Join(validation.errors, ", "))
        ELSE IF ~Truthy(user_id) THEN rejected("user_id is required")
        ELSE IF db = "throw"
          THEN answered(CaughtResponse("create", FetchFailed), 1, Null, FetchFailed)
        ELSE IF db = "error"
          THEN answered(Failure("create", 400, DbFailure.message), 1, DbFailure, Null)
        ELSE /\ nextId <= cap
             /\ table' = Inserted(row)
             /\ nextId' = nextId + 1
             /\ created' =
                  [i \in DOMAIN created \cup {nextId} |->
                     IF i = nextId
                       THEN [title |-> title, body |-> body,
                             user_id |-> user_id]
                     ELSE created[i]]
             /\ resp' = Response("create", 201, TRUE, row, Null)
             /\ run' = Ran(1, Null, Null)
     /\ UNCHANGED call

Create(title, body, user_id, db, cap) ==
  LET validation == validatePostData(title, body)
      row == Row(nextId, sanitizeString(title), sanitizeString(body), user_id)
      answered(response, calls, error, exception) ==
        /\ resp' = response
        /\ run' = Ran(calls, error, exception)
        /\ UNCHANGED <<table, nextId, created>>
      rejected(message) == answered(Failure("create", 400, message), 0, Null, Null)
  IN /\ IF ~Truthy(user_id) THEN rejected("user_id is required")
        ELSE IF ~validation.isValid
          THEN rejected(Join(validation.errors, ", "))
        ELSE IF db = "throw"
          THEN answered(CaughtResponse("create", FetchFailed), 1, Null, FetchFailed)
        ELSE IF db = "error"
          THEN answered(Failure("create", 400, DbFailure.message), 1, DbFailure, Null)
        ELSE /\ nextId <= cap
             /\ table' = Inserted(row)
             /\ nextId' = nextId + 1
             /\ created' =
                  [i \in DOMAIN created \cup {nextId} |->
                     IF i = nextId
                       THEN [title |-> title, body |-> body,
                             user_id |-> user_id]
                     ELSE created[i]]
             /\ resp' = Response("create", 201, TRUE, row, Null)
             /\ run' = Ran(1, Null, Null)
     /\ UNCHANGED call

-----------------------------------------------------------------------------
(* PUT /posts/:id.  The payload's user_id is never read.                   *)

Update(id, title, body, user_id, db) ==
  LET validation == validatePostData(title, body)
      r == selectSingle(id, db)
      answered(response, calls, error, exception) ==
        /\ resp' = response
        /\ run' = Ran(calls, error, exception)
        /\ UNCHANGED table
      rejected(message) == answered(Failure("update", 400, message), 0, Null, Null)
  IN /\ IF ~Truthy(validateId(Str(id)))
          THEN rejected("Invalid post ID")
        ELSE IF ~validation.isValid
          THEN rejected(Join(validation.errors, ", "))
        ELSE IF db = "throw"
          THEN answered(CaughtResponse("update", FetchFailed), 1, Null, FetchFailed)
        ELSE IF r.error # Null
          THEN IF r.error.code = "PGRST116"
                 THEN answered(Failure("update", 404, "Post not found"),
                               1, r.error, Null)
               ELSE answered(Failure("update", 400, r.error.message),
                             1, r.error, Null)
        ELSE /\ table' = Updated(r.data.id, sanitizeString(title),
                                 sanitizeString(body))
             /\ resp' = Response("update", 200, TRUE,
                                 table'[r.data.id], Null)
             /\ run' = Ran(1, Null, Null)
     /\ created' = Forget(id)
     /\ UNCHANGED <<nextId, call>>

-----------------------------------------------------------------------------
(* DELETE /posts/:id                                                       *)

Deleted == [message |-> "Post deleted successfully"]

\* deleteById with .single(): no row matching is an error
deleteSingle(id, db) ==
  IF db = "error" THEN [error |-> DbFailure]
  ELSE IF ~IsNumeral(id) THEN [error |-> BadIdSyntax]
  ELSE IF ParseIntString(id).n \notin DOMAIN table THEN [error |-> NoRows]
  ELSE [error |-> Null]

\* .from('posts').delete().eq('id', id): no row matching is no error
deleteById(id, db) ==
  IF db = "error" THEN [error |-> DbFailure]
  ELSE IF ~IsNumeral(id) THEN [error |-> BadIdSyntax]
  ELSE [error |-> Null]

\* Delete with the call issued once more when it returns an error
DeleteRetrying(id, db) ==
  LET r == deleteById(id, db)
      answered(response, calls, error, exception) ==
        /\ resp' = response
        /\ run' = Ran(calls, error, exception)
        /\ UNCHANGED table
  IN /\ IF ~Truthy(validateId(Str(id)))
          THEN answered(Failure("delete", 400, "Invalid post ID"), 0, Null, Null)
        ELSE IF db = "throw"
          THEN answered(CaughtResponse("delete", FetchFailed), 1, Null, FetchFailed)
        ELSE IF r.error # Null
          THEN answered(Failure("delete", 400, r.error.message), 2, r.error, Null)
        ELSE /\ table' = Removed(ParseIntString(id).n)
             /\ resp' = Response("delete", 200, TRUE, Deleted, Null)
             /\ run' = Ran(1, Null, Null)
     /\ created' = Forget(id)
     /\ UNCHANGED <<nextId, call>>

Delete(id, db) ==
  LET r == deleteById(id, db)
      answered(response, calls, error, exception) ==
        /\ resp' = response
        /\ run' = Ran(calls, error, exception)
        /\ UNCHANGED table
  IN /\ IF ~Truthy(validateId(Str(id)))
          THEN answered(Failure("delete", 400, "Invalid post ID"), 0, Null, Null)
        ELSE IF db = "throw"
          THEN answered(CaughtResponse("delete", FetchFailed), 1, Null, FetchFailed)
        ELSE IF r.error # Null
          THEN answered(Failure("delete", 400, r.error.message), 1, r.error, Null)
        ELSE /\ table' = Removed(ParseIntString(id).n)
             /\ resp' = Response("delete", 200, TRUE, Deleted, Null)
             /\ run' = Ran(1, Null, Null)
     /\ created' = Forget(id)
     /\ UNCHANGED <<nextId, call>>

-----------------------------------------------------------------------------
(* GET /posts                                                              *)

LowerCase(c) ==
  CASE c = "A" -> "a" [] c = "B" -> "b" [] OTHER -> c

Lower(s) == [i \in 1..Len(s) |-> LowerCase(s[i])]

Contains(s, part) ==
  \E i \in 1..(Len(s) - Len(part) + 1) : SubSeq(s, i, i + Len(part) - 1) = part

\* column ILIKE '%search%', for a search text without % and _
ILike(column, search) == Contains(Lower(column), Lower(search))

\* the ids of the rows the query selects: with a search text that is not
\* blank, the rows whose title or body holds it, case-insensitively
Matching(search) ==
  IF Len(Trim(search)) > 0
    THEN {i \in DOMAIN table :
            ILike(table[i].title, search) \/ ILike(table[i].body, search)}
  ELSE DOMAIN table

\* .order('id', { ascending: false }): the rows of the given ids, largest
\* id first; no id is over nextId - 1
Descending(ids) ==
  LET n == nextId - 1
      down == SelectSeq([k \in 1..n |-> n + 1 - k], LAMBDA i : i \in ids)
  IN [k \in 1..Len(down) |-> table[down[k]]]

\* Range with the row at position to left out
RangeExclusive(rows, from, to) == SubSeq(rows, from + 1, Min(to, Len(rows)))

\* .range(from, to): the rows at positions from..to, counted from 0
Range(rows, from, to) == SubSeq(rows, from + 1, Min(to + 1, Len(rows)))

\* Math.ceil(count / limitNum), for count >= 0 and limitNum >= 1
Ceil(count, limitNum) == (count + limitNum - 1) \div limitNum

selectPage(search, from, to, db) ==
  LET ids == Matching(search)
  IN IF db = "error"
       THEN [data |-> Null, error |-> DbFailure, count |-> Null]
     ELSE [data |-> Range(Descending(ids), from, to),
           error |-> Null,
           count |-> Cardinality(ids)]

\* the value of a query parameter, or its default when it is absent
Default(v, d) == IF v = Undefined THEN d ELSE v

\* the result of the awaited query of GET /posts
listQuery(page, limit, search, db) ==
  LET pg == validatePagination(Default(page, Num(1)), Default(limit, Num(10)))
      offset == (pg.pageNum - 1) * pg.limitNum
  IN selectPage(Default(search, Str(<<>>)).s, offset,
                offset + pg.limitNum - 1, db)

\* the response of GET /posts when no exception is raised
ListResponse(page, limit, search, db) ==
  LET pg == validatePagination(Default(page, Num(1)), Default(limit, Num(10)))
      pageNum == pg.pageNum
      limitNum == pg.limitNum
      r == listQuery(page, limit, search, db)
      totalPages == Ceil(r.count, limitNum)
  IN IF r.error # Null THEN Failure("list", 400, r.error.message)
     ELSE Response("list", 200, TRUE,
                   [posts |-> r.data,
                    pagination |->
                      [currentPage |-> pageNum,
                       totalPages |-> totalPages,
                       totalItems |-> r.count,
                       itemsPerPage |-> limitNum,
                       hasNextPage |-> pageNum < totalPages,
                       hasPrevPage |-> pageNum > 1]],
                   Null)

List(page, limit, search, db) ==
  /\ IF TypeOf(Default(search, Str(<<>>))) # "string"
       THEN /\ resp' = CaughtResponse("list", TrimNotAFunction)
            /\ run' = Ran(0, Null, TrimNotAFunction)
     ELSE IF db = "throw"
       THEN /\ resp' = CaughtResponse("list", FetchFailed)
            /\ run' = Ran(1, Null, FetchFailed)
     ELSE /\ resp' = ListResponse(page, limit, search, db)
          /\ run' = Ran(1, listQuery(page, limit, search, db).error, Null)
  /\ UNCHANGED <<table, nextId, created, call>>

-----------------------------------------------------------------------------
(* Spec: the five handlers, called in any order.                           *)

RECURSIVE DecString(_)
\* the decimal numeral of n >= 0
DecString(n) ==
  IF n < 10 THEN <<DecDigits[n + 1]>>
  ELSE DecString(n \div 10) \o <<DecDigits[(n % 10) + 1]>>

\* path parameters: every id the sequence hands out and the next one, and
\* ids that are zero, negative, not numeric, or numeric only at the start
PathIds ==
  {DecString(i) : i \in 1..(MaxId + 1)}
    \cup {<<"0">>, <<"-", "1">>, <<"a", "b", "c">>, <<"1", "a">>}

Payload(title, body, user_id) ==
  [title |-> title, body |-> body, user_id |-> user_id]

PaddedA == Str(<<" ", "a", " ">>)
PlainB == Str(<<"b">>)
PlainX == Str(<<"x">>)
PaddedY == Str(<<" ", "y">>)

CreatePayloads ==
  {Payload(PaddedA, PlainX, Num(1)),
   Payload(PlainB, PaddedY, Num(1)),
   Payload(PaddedA, PlainX, Undefined),
   Payload(PaddedA, PlainX, Null),
   Payload(PaddedA, PlainX, Num(0)),
   Payload(Undefined, PlainX, Num(0)),
   Payload(Undefined, PlainX, Num(1)),
   Payload(Str(<<" ">>), PlainX, Num(1)),
   Payload(Str(Rep("a", MaxTitleLength + 1)), PlainX, Num(1)),
   Payload(Str(Rep("a", MaxTitleLength - 1) \o <<" ", " ">>), PlainX, Num(1)),
   Payload(PaddedA, Num(7), Num(1)),
   Payload(PaddedA, Str(Rep("x", MaxBodyLength + 1)), Num(1)),
   Payload(Str(<<>>), Str(Rep("x", 2 * MaxBodyLength)), Num(1))}

UpdatePayloads ==
  {Payload(PaddedA, PlainX, Num(2)),
   Payload(PlainB, PaddedY, Undefined),
   Payload(Undefined, PlainX, Undefined),
   Payload(Str(<<" ">>), PlainX, Num(2)),
   Payload(Str(Rep("a", MaxTitleLength + 1)), PlainX, Undefined),
   Payload(PaddedA, Num(7), Undefined),
   Payload(PaddedA, Str(Rep("x", MaxBodyLength + 1)), Undefined),
   Payload(Str(<<>>), Str(Rep("x", 2 * MaxBodyLength)), Undefined)}

Numerals == {DecString(i) : i \in 1..(MaxId + 1)}

\* the requests made of each handler.  A failing database call is tried
\* with every Get and Delete, and with some Create, Update and List.
CreateRequests ==
  {<<p, "ok">> : p \in CreatePayloads}
    \cup {<<Payload(PaddedA, PlainX, Num(1)), "error">>,
          <<Payload(PaddedA, PlainX, Num(0)), "error">>,
          <<Payload(Undefined, PlainX, Num(1)), "error">>}

UpdateRequests ==
  {<<id, p, "ok">> : id \in PathIds, p \in UpdatePayloads}
    \cup {<<id, p, "error">> :
            id \in {<<"1">>, <<"0">>},
            p \in {Payload(PaddedA, PlainX, Num(2)),
                   Payload(Undefined, PlainX, Undefined)}}

Query(page, limit, search) ==
  [page |-> page, limit |-> limit, search |-> search]

ListRequests ==
  {<<Query(page, limit, search), "ok">> :
     page \in {Undefined, Str(<<"2">>)},
     limit \in {Undefined, Str(<<"1">>)},
     search \in {Undefined, Str(<<"A">>)}}
    \cup {<<Query(Undefined, Undefined, Undefined), "error">>}

Next ==
  \/ \E r \in CreateRequests :
       Create(r[1].title, r[1].body, r[1].user_id, r[2], MaxId)
  \/ \E id \in PathIds, db \in DbOutcomes : Get(id, db)
  \/ \E r \in UpdateRequests :
       Update(r[1], r[2].title, r[2].body, r[2].user_id, r[3])
  \/ \E id \in PathIds, db \in DbOutcomes : Delete(id, db)
  \/ \E r \in ListRequests : List(r[1].page, r[1].limit, r[1].search, r[2])

Spec == Init /\ [][Next]_vars

-----------------------------------------------------------------------------
(* SpecList: posts are created and deleted, and listed page by page.       *)

UpperB == Str(<<"B">>)

ListCreatePayloads ==
  {Payload(PaddedA, PlainX, Num(1)), Payload(UpperB, PaddedY, Num(1))}

ListQueries ==
  {<<Query(page, limit, search), "ok">> :
     page \in {Str(<<"1">>), Str(<<"2">>), Str(<<"3">>)},
     limit \in {Str(<<"2">>), Str(<<"2", "0", "0">>)},
     search \in {Undefined, Str(<<"b">>)}}
    \cup {<<Query(Str(<<"0">>), Str(<<"0">>), Str(<<"x">>)), "ok">>,
          <<Query(Undefined, Undefined, Str(<<" ">>)), "ok">>,
          <<Query(Undefined, Undefined, Undefined), "error">>}

NextList ==
  \/ \E p \in ListCreatePayloads :
       Create(p.title, p.body, p.user_id, "ok", MaxListId)
  \/ \E i \in 1..MaxListId : Delete(DecString(i), "ok")
  \/ \E r \in ListQueries : List(r[1].page, r[1].limit, r[1].search, r[2])

SpecList == Init /\ [][NextList]_vars

-----------------------------------------------------------------------------
(* SpecFaults: the five handlers, with database calls that succeed, return *)
(* an error or raise, and requests that validation refuses.                *)

\* what the awaited database call does: it resolves without or with an
\* error, or it rejects
DbResults == DbOutcomes \cup {"throw"}

FaultPayloads ==
  {Payload(PaddedA, PlainX, Num(1)),
   Payload(PaddedA, PlainX, Num(0)),
   Payload(PaddedA, PlainX, Undefined),
   Payload(Undefined, PlainX, Undefined),
   Payload(Str(<<" ">>), PlainX, Num(0)),
   Payload(Undefined, PlainX, Num(1)),
   Payload(PaddedA, Str(Rep("x", MaxBodyLength + 1)), Num(1))}

FaultQueries ==
  {Query(Undefined, Undefined, search) : search \in {Undefined, Str(<<"A">>), Obj}}
    \cup {Query(Str(<<"2">>), Str(<<"1">>), Undefined)}

\* the payloads of the Update requests: one that validatePostData accepts,
\* one without a title and one with too long a body
FaultUpdatePayloads ==
  {Payload(PlainB, PaddedY, Num(2)),
   Payload(Undefined, PlainX, Undefined),
   Payload(PaddedA, Str(Rep("x", MaxBodyLength + 1)), Num(1))}

\* path parameters: the first id and the one after the last, and ids that
\* are zero, not numeric, or numeric only at the start
FaultIds ==
  {DecString(1), DecString(MaxId + 1), <<"0">>, <<"a", "b", "c">>, <<"1", "a">>}

NextFaults ==
  \/ \E p \in FaultPayloads, db \in DbResults :
       Create(p.title, p.body, p.user_id, db, MaxId)
  \/ \E id \in FaultIds, db \in DbResults : Get(id, db)
  \/ \E id \in FaultIds, p \in FaultUpdatePayloads, db \in DbResults :
       Update(id, p.title, p.body, p.user_id, db)
  \/ \E id \in FaultIds, db \in DbResults : Delete(id, db)
  \/ \E q \in FaultQueries, db \in DbResults :
       List(q.page, q.limit, q.search, db)

SpecFaults == Init /\ [][NextFaults]_vars

-----------------------------------------------------------------------------
(* Properties of the validation utilities, under SpecUtil.                 *)

Returned(fn) == call.fn = fn /\ call.ret # Pending

\* n clamped to the closed range lo..hi
Clamp(n, lo, hi) == IF n < lo THEN lo ELSE IF n > hi THEN hi ELSE n

\* C7: validatePagination returns for every input, with pageNum >= 1 and
\* 1 <= limitNum <= 100; ('-1','200') gives {pageNum: 1, limitNum: 100} and
\* ('abc','xyz') gives {pageNum: 1, limitNum: 10}.
C7_PaginationRange ==
  /\ Returned("validatePagination") =>
       /\ call.ret.pageNum \in Int /\ call.ret.pageNum >= 1
       /\ call.ret.limitNum \in Int
       /\ 1 <= call.ret.limitNum /\ call.ret.limitNum <= 100
       /\ (call.args = <<Str(<<"-", "1">>), Str(<<"2", "0", "0">>)>>)
            => call.ret = [pageNum |-> 1, limitNum |-> 100]
       /\ (call.args = <<Str(<<"a", "b", "c">>), Str(<<"x", "y", "z">>)>>)
            => call.ret = [pageNum |-> 1, limitNum |-> 10]

\* C7 witness: a call with a negative page and a limit over 100 has returned
C7_Witness ==
  /\ Returned("validatePagination")
  /\ call.args = <<Str(<<"-", "1">>), Str(<<"2", "0", "0">>)>>

\* C8: limitNum is 10 only when limit is absent or does not parse as an
\* integer; when limit parses as the integer n, limitNum is n clamped to
\* 1..100; pageNum is 1 when page is absent, non-numeric or <= 0 and the
\* parsed integer otherwise.
C8_LimitClamped ==
  Returned("validatePagination") =>
    LET page == parseInt(call.args[1])
        limit == parseInt(call.args[2])
    IN /\ call.ret.limitNum =
            IF isNaN(limit) THEN 10 ELSE Clamp(limit.n, 1, 100)
       /\ call.ret.pageNum =
            IF isNaN(page) \/ page.n <= 0 THEN 1 ELSE page.n

\* the part of C8 the code does keep: a limit that parses to an integer other
\* than 0 is clamped to 1..100, and pageNum is as C8 says
C8_NonZeroLimitClamped ==
  Returned("validatePagination") =>
    LET page == parseInt(call.args[1])
        limit == parseInt(call.args[2])
    IN /\ call.ret.limitNum =
            IF isNaN(limit) \/ limit.n = 0 THEN 10
            ELSE Clamp(limit.n, 1, 100)
       /\ call.ret.pageNum =
            IF isNaN(page) \/ page.n <= 0 THEN 1 ELSE page.n

\* the strings C9 speaks of
NonNumeric(v) == v.t = "string" /\ isNaN(parseInt(v))
ParsesTo(v, P(_)) ==
  v.t = "string" /\ ~isNaN(parseInt(v)) /\ P(parseInt(v).n)
IsNegative(n) == n < 0
IsPositive(n) == n > 0

\* C9 (the function): validateId returns false for every non-numeric
\* string, for null and undefined, for "0" and for every string of a
\* negative number, and true for every string that parses to a positive
\* integer.
C9_ValidateIdBoolean ==
  Returned("validateId") =>
    LET id == call.args[1]
    IN /\ ( \/ NonNumeric(id)
            \/ id \in {Null, Undefined}
            \/ id = Str(<<"0">>)
            \/ ParsesTo(id, IsNegative) ) => call.ret = Bool(FALSE)
       /\ ParsesTo(id, IsPositive) => call.ret = Bool(TRUE)

\* what the code keeps of it: the result is falsy in the first case and
\* true in the second
C9_ValidateIdTruthiness ==
  Returned("validateId") =>
    LET id == call.args[1]
    IN /\ ( \/ NonNumeric(id)
            \/ id \in {Null, Undefined}
            \/ id = Str(<<"0">>)
            \/ ParsesTo(id, IsNegative) ) => ~Truthy(call.ret)
       /\ ParsesTo(id, IsPositive) => call.ret = Bool(TRUE)

HasMessage(errors, msgs) == \E i \in 1..Len(errors) : errors[i] \in msgs

Missing(v) == v \in {Undefined, Null}
NonString(v) == TypeOf(v) # "string"
BlankString(v) == TypeOf(v) = "string" /\ Len(Trim(v.s)) = 0
LongerThan(v, max) == TypeOf(v) = "string" /\ Len(v.s) > max
TrimmedWithin(v, max) ==
  TypeOf(v) = "string" /\ Len(Trim(v.s)) > 0 /\ Len(Trim(v.s)) <= max

\* the first and the last part of C10: each field has a message iff it is
\* missing, non-string, blank after trimming or too long; isValid iff there
\* is no message; ('', 20000 characters) has a message for each field
C10_Messages ==
  LET title == call.args[1]
      body == call.args[2]
      errors == call.ret.errors
  IN /\ call.ret.isValid <=> errors = <<>>
     /\ HasMessage(errors, {TitleRequired, TitleTooLong}) <=>
          \/ Missing(title) \/ NonString(title) \/ BlankString(title)
          \/ LongerThan(title, 255)
     /\ HasMessage(errors, {BodyRequired, BodyTooLong}) <=>
          \/ Missing(body) \/ NonString(body) \/ BlankString(body)
          \/ LongerThan(body, 10000)
     /\ (title = Str(<<>>) /\ body = Str(Rep("x", 20000))) =>
          /\ ~call.ret.isValid
          /\ HasMessage(errors, {TitleRequired, TitleTooLong})
          /\ HasMessage(errors, {BodyRequired, BodyTooLong})

\* C10 as stated: C10_Messages, and a title whose trimmed form is non-empty
\* and at most 255 characters with a body whose trimmed form is non-empty
\* and at most 10000 characters is accepted.
C10_TrimmedFormAccepted ==
  Returned("validatePostData") =>
    /\ C10_Messages
    /\ ( /\ TrimmedWithin(call.args[1], 255)
          /\ TrimmedWithin(call.args[2], 10000) ) => call.ret.isValid

\* C10 amended: C10_Messages, and a title that is non-empty after trimming
\* and at most 255 characters before trimming with a body that is non-empty
\* after trimming and at most 10000 characters before trimming is accepted.
C10_UntrimmedLengthAccepted ==
  Returned("validatePostData") =>
    /\ C10_Messages
    /\ ( /\ TrimmedWithin(call.args[1], 255)
          /\ ~LongerThan(call.args[1], 255)
          /\ TrimmedWithin(call.args[2], 10000)
          /\ ~LongerThan(call.args[2], 10000) ) => call.ret.isValid

\* C10 witness: a padded title of exactly 255 characters and a body of
\* exactly 10000 characters have been accepted
C10_Witness ==
  /\ Returned("validatePostData")
  /\ call.args[1] = Str(<<" ">> \o Rep("a", 254))
  /\ call.args[2] = Str(Rep("x", 10000))
  /\ call.ret.isValid

-----------------------------------------------------------------------------
(* Properties of the handlers.                                             *)

NonBlank(s) == Len(Trim(s)) > 0

\* C1: every persisted post has a title that is non-empty after trimming
\* and at most 255 characters, a body that is non-empty after trimming and
\* at most 10000 characters, and a user_id that is not null.
C1_PersistedPostsValid ==
  \A i \in DOMAIN table :
    /\ table[i].id = i
    /\ NonBlank(table[i].title) /\ Len(table[i].title) <= 255
    /\ NonBlank(table[i].body) /\ Len(table[i].body) <= 10000
    /\ table[i].user_id \notin {Null, Undefined}

\* C1 witness: two posts are persisted and the last request was an update
\* that went through
C1_Witness ==
  /\ Cardinality(DOMAIN table) = 2
  /\ resp.op = "update" /\ resp.status = 200

\* what a Get of the post created by request c answers in C2
RoundTrip(c, r) ==
  /\ r.status = 200
  /\ r.body.success
  /\ r.body.data.title = Trim(c.title.s)
  /\ r.body.data.body = Trim(c.body.s)
  /\ r.body.data.user_id = c.user_id

\* C2 as stated: a Get by the id a Create returned, before any Update or
\* Delete of that id, responds 200 with the trimmed title and body and the
\* user_id of the Create.
C2_RoundTripAlways ==
  [][resp'.op = "get" =>
       \A i \in DOMAIN created, db \in DbOutcomes :
         Get(DecString(i), db) => RoundTrip(created[i], resp')]_vars

\* C2 amended: the same, when the database call of the Get does not fail.
C2_RoundTrip ==
  [][resp'.op = "get" =>
       \A i \in DOMAIN created :
         Get(DecString(i), "ok") => RoundTrip(created[i], resp')]_vars

\* C2 witness: a Get has answered with a post no Update or Delete has named
\* since its Create, and whose title was sent with white space around it
C2_Witness ==
  /\ resp.op = "get" /\ resp.status = 200
  /\ resp.body.data.id \in DOMAIN created
  /\ created[resp.body.data.id].title = PaddedA

\* the id a path parameter denotes
IdOf(id) == ParseIntString(id).n

\* C3: an Update that succeeds sets title and body of the row of its id to
\* the trimmed payload values and changes nothing else: the row keeps its id
\* and user_id, whatever the payload holds, and every other row is as before.
C3_UpdateFrame ==
  [][(resp'.op = "update" /\ resp'.status = 200) =>
       \A id \in PathIds, p \in UpdatePayloads, db \in DbOutcomes :
         Update(id, p.title, p.body, p.user_id, db) =>
           /\ DOMAIN table' = DOMAIN table
           /\ IdOf(id) \in DOMAIN table
           /\ \A j \in DOMAIN table \ {IdOf(id)} : table'[j] = table[j]
           /\ table'[IdOf(id)].id = table[IdOf(id)].id
           /\ table'[IdOf(id)].user_id = table[IdOf(id)].user_id
           /\ table'[IdOf(id)].title = Trim(p.title.s)
           /\ table'[IdOf(id)].body = Trim(p.body.s)
           /\ nextId' = nextId]_vars

\* C3 witness: with two posts persisted, an Update whose payload held
\* user_id 2 has succeeded on a post of user 1
C3_Witness ==
  /\ Cardinality(DOMAIN table) = 2
  /\ resp.op = "update" /\ resp.status = 200
  /\ resp.body.data.title = <<"a">>
  /\ resp.body.data.user_id = Num(1)

\* the database call of a request for id fails
CallFails(id, db) == db = "error" \/ ~IsNumeral(id)

\* C4: a Delete of a valid id whose database call does not fail responds 200
\* with success = true whether or not the row exists; it leaves no row of
\* that id and every other row as it was, so a second Delete of the same id
\* responds 200 again and leaves the table as the first left it.
C4_DeleteIdempotent ==
  [][resp'.op = "delete" =>
       \A id \in PathIds, db \in DbOutcomes :
         ( /\ Truthy(validateId(Str(id)))
           /\ ~CallFails(id, db)
           /\ Delete(id, db) ) =>
           /\ resp'.status = 200
           /\ resp'.body.success = TRUE
           /\ DOMAIN table' = DOMAIN table \ {IdOf(id)}
           /\ \A j \in DOMAIN table' : table'[j] = table[j]
           /\ IdOf(id) \notin DOMAIN table => table' = table]_vars

\* C4 witness: a Delete has succeeded although no post was ever created
C4_Witness ==
  /\ resp.op = "delete" /\ resp.status = 200 /\ resp.body.success
  /\ nextId = 1 /\ table = <<>>

\* the payloads of Update requests that validatePostData accepts
ValidUpdatePayloads ==
  {p \in UpdatePayloads : validatePostData(p.title, p.body).isValid}

\* a valid id that matches no row
ValidWithoutRow(id) ==
  Truthy(validateId(Str(id))) /\ IdOf(id) \notin DOMAIN table

NotFound(op, r) ==
  /\ r = Failure(op, 404, "Post not found")
  /\ table' = table

\* C5 as stated: a Get, or an Update with a valid payload, on a valid id
\* that matches no row responds 404, success = false, "Post not found", and
\* leaves the table as it was; no other operation responds 404.
C5_NotFoundAlways ==
  [][/\ resp'.op \in {"list", "delete", "create"} => resp'.status # 404
     /\ resp'.op = "get" =>
          \A id \in PathIds, db \in DbOutcomes :
            (ValidWithoutRow(id) /\ Get(id, db)) => NotFound("get", resp')
     /\ resp'.op = "update" =>
          \A id \in PathIds :
            ValidWithoutRow(id) =>
              \A p \in ValidUpdatePayloads, db \in DbOutcomes :
                Update(id, p.title, p.body, p.user_id, db)
                  => NotFound("update", resp')]_vars

\* C5 amended: the same, when the database call of the Get or Update does
\* not fail.
C5_NotFound ==
  [][/\ resp'.op \in {"list", "delete", "create"} => resp'.status # 404
     /\ resp'.op = "get" =>
          \A id \in PathIds, db \in DbOutcomes :
            (ValidWithoutRow(id) /\ ~CallFails(id, db) /\ Get(id, db))
              => NotFound("get", resp')
     /\ resp'.op = "update" =>
          \A id \in PathIds :
            ValidWithoutRow(id) =>
              \A p \in ValidUpdatePayloads, db \in DbOutcomes :
                (~CallFails(id, db) /\ Update(id, p.title, p.body, p.user_id, db))
                  => NotFound("update", resp')]_vars

\* C5 witness: an Update has been answered 404 while a post is persisted
C5_Witness ==
  /\ resp = Failure("update", 404, "Post not found")
  /\ DOMAIN table # {}

InvalidIdResponse(r) ==
  r.status = 400 /\ r.body.error = JsonString("Invalid post ID")

\* C9 (the handlers): Get, Update and Delete respond 400 'Invalid post ID'
\* exactly when validateId of the path parameter is falsy: no request whose
\* id validateId accepts is answered so, and no request whose id it refuses
\* is answered otherwise.
C9_HandlersRejectInvalidId ==
  [][resp'.op \in {"get", "update", "delete"} =>
       \A id \in PathIds :
         (InvalidIdResponse(resp') <=> Truthy(validateId(Str(id)))) =>
           /\ \A db \in DbOutcomes : ~Get(id, db) /\ ~Delete(id, db)
           /\ \A p \in UpdatePayloads, db \in DbOutcomes :
                ~Update(id, p.title, p.body, p.user_id, db)]_vars

\* a request has been refused for its id
C9_HandlersWitness == resp = Failure("update", 400, "Invalid post ID")

-----------------------------------------------------------------------------
(* Properties of GET /posts, under SpecList.                               *)

\* the response r to the query q lists the page the query asks for
ListedAsAsked(q, r) ==
  LET pg == validatePagination(Default(q.page, Num(1)),
                               Default(q.limit, Num(10)))
      pageNum == pg.pageNum
      limitNum == pg.limitNum
      offset == (pageNum - 1) * limitNum
      ids == Matching(Default(q.search, Str(<<>>)).s)
      \* the position of row i among the matching rows, largest id first
      Position(i) == Cardinality({j \in ids : j > i})
      posts == r.body.data.posts
      pagination == r.body.data.pagination
  IN /\ \A k \in 1..Len(posts) :
          /\ posts[k].id \in ids
          /\ posts[k] = table[posts[k].id]
          /\ Position(posts[k].id) = offset + k - 1
     /\ {posts[k].id : k \in 1..Len(posts)}
          = {i \in ids : Position(i) \in offset..(offset + limitNum - 1)}
     /\ Len(posts) <= limitNum
     /\ pagination.currentPage = pageNum
     /\ pagination.itemsPerPage = limitNum
     /\ pagination.totalItems = Cardinality(ids)
     /\ (pagination.totalPages - 1) * limitNum < pagination.totalItems
     /\ pagination.totalItems <= pagination.totalPages * limitNum
     /\ pagination.hasNextPage = (pageNum < pagination.totalPages)
     /\ pagination.hasPrevPage = (pageNum > 1)

FirstPageOfTwo == Query(Str(<<"1">>), Str(<<"2">>), Undefined)

\* C6: in every table state, the successful response of List to every query
\* holds the matching rows by id descending at positions
\* offset..offset+limitNum-1, offset = (pageNum-1)*limitNum, so at most
\* limitNum rows, with totalItems the number of matching rows, totalPages =
\* ceil(totalItems/limitNum), hasNextPage = (pageNum < totalPages) and
\* hasPrevPage = (pageNum > 1); page=1, limit=2 over 5 posts gives 2 posts,
\* totalPages = 3, hasNextPage true and hasPrevPage false.
C6_ListPagination ==
  \A q \in ListQueries :
    LET r == ListResponse(q[1].page, q[1].limit, q[1].search, q[2])
    IN r.status = 200 =>
         /\ ListedAsAsked(q[1], r)
         /\ (q[1] = FirstPageOfTwo /\ Cardinality(DOMAIN table) = 5) =>
              /\ Len(r.body.data.posts) = 2
              /\ r.body.data.pagination.totalPages = 3
              /\ r.body.data.pagination.hasNextPage = TRUE
              /\ r.body.data.pagination.hasPrevPage = FALSE

\* C6 witness: List has answered page 1 of limit 2 over five posts
C6_Witness ==
  /\ resp.op = "list" /\ resp.status = 200
  /\ Cardinality(DOMAIN table) = 5
  /\ resp = ListResponse(FirstPageOfTwo.page, FirstPageOfTwo.limit,
                         FirstPageOfTwo.search, "ok")
  /\ Len(resp.body.data.posts) = 2

-----------------------------------------------------------------------------
(* Properties of the course of a request, under SpecFaults.                *)

Operations == {"list", "get", "create", "update", "delete"}

InternalServerError ==
  [success |-> FALSE, data |-> Null,
   error |-> JsonString("Internal server error")]

\* C11: in each of the five operations, a request whose handling raised an
\* exception ends in one response, HTTP 500 with success = false, data =
\* null and the error 'Internal server error', which is not the message of
\* the exception; no request without an exception is answered 500.
C11_ExceptionBoundary ==
  resp.op # "none" =>
    /\ resp.op \in Operations
    /\ run.exception # Null =>
         /\ resp.status = 500
         /\ resp.body = InternalServerError
         /\ resp.body.error # JsonString(run.exception.message)
    /\ run.exception = Null => resp.status # 500

\* C11 witness: List has answered a search that is no string, whose trim
\* raised before any database call, with posts persisted
C11_Witness ==
  /\ resp.op = "list" /\ resp.status = 500
  /\ run = Ran(0, Null, TrimNotAFunction)
  /\ DOMAIN table # {}

\* the error is the one a Get or an Update is answered 404 for
IsNoRows(op, error) == op \in {"get", "update"} /\ error.code = "PGRST116"

\* C12: a request issues at most one database call; when the call returns
\* an error other than 'no rows' on Get or Update, the response is HTTP 400,
\* success = false, with the message of that error as it is, and the call
\* was issued once.
C12_NoRetries ==
  resp.op # "none" =>
    /\ run.calls \in {0, 1}
    /\ (run.error # Null /\ ~IsNoRows(resp.op, run.error)) =>
         /\ run.calls = 1
         /\ resp = Failure(resp.op, 400, run.error.message)

\* C12 witness: a Delete and the error the database returned for its id
C12_Witness ==
  /\ resp = Failure("delete", 400, BadIdSyntax.message)
  /\ run = Ran(1, BadIdSyntax, Null)

InvalidId(id) == ~Truthy(validateId(Str(id)))
InvalidPayload(p) == ~validatePostData(p.title, p.body).isValid

\* the requests that validation refuses
InvalidIds == {id \in FaultIds : InvalidId(id)}
RefusedCreates == {p \in FaultPayloads : ~Truthy(p.user_id) \/ InvalidPayload(p)}
RefusedUpdates ==
  {u \in FaultIds \X FaultUpdatePayloads : InvalidId(u[1]) \/ InvalidPayload(u[2])}

\* the response to a request that validation refuses
Refused(r) == r.status = 400 /\ run'.calls = 0 /\ table' = table

\* C13: a Create with a falsy user_id (0 included) or a title or body that
\* validatePostData refuses, an Update with an invalid id or such a title
\* or body, and a Get or Delete with an invalid id are answered HTTP 400
\* with no database call issued and the table as it was; Create checks
\* user_id before title and body, and Update the id before title and body.
C13_ValidateBeforeQuery ==
  [][/\ resp'.op = "create" =>
          \A p \in RefusedCreates, db \in DbResults :
            Create(p.title, p.body, p.user_id, db, MaxId) =>
              /\ Refused(resp')
              /\ ~Truthy(p.user_id) =>
                   resp'.body.error = JsonString("user_id is required")
     /\ resp'.op = "update" =>
          \A u \in RefusedUpdates, db \in DbResults :
            Update(u[1], u[2].title, u[2].body, u[2].user_id, db) =>
              /\ Refused(resp')
              /\ u[1] \in InvalidIds =>
                   resp'.body.error = JsonString("Invalid post ID")
     /\ resp'.op = "get" =>
          \A id \in InvalidIds, db \in DbResults : Get(id, db) => Refused(resp')
     /\ resp'.op = "delete" =>
          \A id \in InvalidIds, db \in DbResults :
            Delete(id, db) => Refused(resp')]_vars

\* C13 witness: a Create has been refused for its user_id with no database
\* call, while a post is persisted
C13_Witness ==
  /\ resp = Failure("create", 400, "user_id is required")
  /\ run.calls = 0
  /\ DOMAIN table # {}

====
